---- MODULE Spec2Model ----
(***************************************************************************)
(* Model of main.js of floresta_web: the block download loop (update_tip), *)
(* the Start handler (sync_loop), the page initialisation (run), the       *)
(* periodic timer callback and the renderer (update_ui), together with the *)
(* FlorestaChain collaborator and the block source they talk to.           *)
(*                                                                         *)
(* JavaScript runs one callback at a time.  An async function runs without *)
(* interruption up to its next await, so every running update_tip is       *)
(* always suspended at the fetch of line 59 (the await of res.json() on    *)
(* line 66 changes no state and is folded into it).  Each action below is  *)
(* one such uninterrupted run: a callback from its start to its first      *)
(* await, or a resumption from one await to the next (or to the end).      *)
(***************************************************************************)
EXTENDS Integers, Sequences, FiniteSets, Bags, TLC

\* ---- bounds of the model -------------------------------------------------
MaxK == 2        \* the source never holds more than MaxK blocks
MaxLoops == 2    \* update_tip invocations suspended at the same time

VARIABLES
    runPc,            \* position of run(): "init" (awaiting init()), "ready", "failed"
    florestaChain,    \* the global of line 49: Undefined or the chain object
    last_tip,         \* the global of line 49
    display,          \* content of the 'height' paragraph
    startDisabled,    \* document.getElementById('start').disabled
    loops,            \* bag of suspended update_tip invocations
    srcHeight,        \* number of blocks the source holds
    badBlock,         \* height of the block the collaborator rejects (0: none)
    faulty,           \* the source's transport is failing (it may recover)
    clicks,           \* Start clicks so far: 0, 1, or 2 for two or more
    toggles,          \* toggle_ibd calls so far
    appliedLog,       \* heights of the blocks accept_block accepted, in order
    lastReq,          \* height of the most recent request sent to the source
    syncHalt,         \* local height at which a sync_loop's update_tip threw (0: none)
    haltedSinceStart, \* an update_tip threw since the last Start click
    renders,          \* display writes since the tip last changed
    walletField,      \* document.getElementById('wallet').value
    ev                \* what the last callback did

vars == <<runPc, florestaChain, last_tip, display, startDisabled, loops,
          srcHeight, badBlock, faulty, clicks, toggles, appliedLog,
          lastReq, syncHalt, haltedSinceStart, renders, walletField, ev>>

srcVars == <<srcHeight, badBlock, faulty>>

\* ---- values ---------------------------------------------------------------
\* last_tip starts as the number 0; a tip is a string (a block hash).  The two
\* never compare equal under ===.
Sentinel == <<"number", 0>>
TipOf(h) == <<"string", h>>

Undefined == [defined |-> FALSE]
Blank == [shown |-> FALSE, tip |-> Sentinel, height |-> 0, ibd |-> FALSE]

\* ev describes the last callback of the page (NoEv after a step of the
\* source or of init()): op, the callback; fetched, the height it requested (0: none); accept,
\* the height of the block it passed to accept_block (0: none); ui, it called
\* update_ui; wrote, update_ui wrote the display; newInv, it began a new
\* update_tip invocation; kind, whose update_tip it resumed or began; res,
\* the answer the resumed update_tip received; height, the local height the
\* resumed update_tip had asked for.
\* For the two address handlers: addr, the address get_random_address returned
\* ("": not called); added, the argument of add_address (<<>>: not called);
\* threw, add_address threw; already, the argument was watched before the call.
NoEv == [op |-> "none", fetched |-> 0, accept |-> 0, ui |-> FALSE,
         wrote |-> FALSE, newInv |-> FALSE, kind |-> "none", res |-> "none",
         height |-> 0, addr |-> "", added |-> <<>>, threw |-> FALSE,
         already |-> FALSE]

\* ---- the FlorestaChain collaborator (pkg/example_libfloresta.js) ----------
NewFlorestaChain == [defined |-> TRUE, height |-> 0, tip |-> TipOf(0), ibd |-> TRUE,
                     watched |-> {}]

\* accept_block succeeds on the valid block that extends the tip, and throws
\* on anything else.
Accepts(chain, b, bad) == b = chain.height + 1 /\ b # bad

accept_block(chain, b) == [chain EXCEPT !.height = @ + 1, !.tip = TipOf(b)]

toggle_ibd(chain) == [chain EXCEPT !.ibd = ~@]

\* The watch-only wallet.  The collaborator parses the string it is given and
\* throws on one that is not an address; the watch set has set semantics.
\* UserInputs are the strings the user types into the field, RandomAddrs the
\* addresses get_random_address derives.
UserInputs == {"abc123", "not an address"}

RandomAddrs == {"bcrt1qfresh"}

AddressOk(a) == a \in {"abc123"} \cup RandomAddrs

add_address(chain, a) == [chain EXCEPT !.watched = @ \cup {a}]

\* get_random_address returns r and watches it as a side effect.
get_random_address(chain, r) == [chain EXCEPT !.watched = @ \cup {r}]

\* ---- update_ui (lines 126-144) --------------------------------------------
Snapshot(chain) == [shown |-> TRUE, tip |-> chain.tip, height |-> chain.height,
                    ibd |-> chain.ibd]

UiSkipsAlwaysRender(chain, lt) == FALSE

UiSkips(chain, lt) == chain.tip = lt

update_ui(chain, lt, disp) ==
    IF UiSkips(chain, lt)
    THEN [last_tip |-> lt, display |-> disp, wrote |-> FALSE]
    ELSE [last_tip |-> chain.tip, display |-> Snapshot(chain), wrote |-> TRUE]

\* ---- update_tip (lines 54-75) ---------------------------------------------
StartHeightSkipsOne(chain) == chain.height + 2

StartHeightFromGenesis(chain) == 1

StartHeight(chain) == chain.height + 1

NextHeightSkipsOne(h) == h + 2

NextHeight(h) == h + 1

\* What the loop body does with the outcome of the fetch of one height:
\* a rejected fetch or an unparsable body throws out of update_tip, a body
\* without data breaks the loop, a body with data is passed to accept_block.
FetchOutcomeSwallowsErrors(res) ==
    CASE res = "error"  -> "break"
      [] res = "absent" -> "break"
      [] res = "block"  -> "apply"

FetchOutcome(res) ==
    CASE res = "error"  -> "throw"
      [] res = "absent" -> "break"
      [] res = "block"  -> "apply"

Loop(kind, height, res) == [kind |-> kind, height |-> height, res |-> res]

One(l) == SetToBag({l})

Running == BagToSet(loops)

NumLoops == BagCardinality(loops)

\* ---- the timer callback's gate (lines 120-122) ----------------------------
TickSkipsNever(chain) == FALSE

TickSkipsInverted(chain) == ~chain.ibd

TickSkips(chain) == chain.ibd

\* ---- the end of sync_loop (line 98): the value given to start.disabled ------
DisabledAfterSyncLeftEnabled == FALSE

DisabledAfterSync == TRUE

\* ---- initial state ---------------------------------------------------------
Init ==
    /\ runPc = "init"
    /\ florestaChain = Undefined
    /\ last_tip = Sentinel
    /\ display = Blank
    /\ startDisabled = FALSE
    /\ loops = EmptyBag
    /\ srcHeight \in 0..MaxK
    /\ badBlock \in 0..MaxK
    /\ faulty \in BOOLEAN
    /\ clicks = 0
    /\ toggles = 0
    /\ appliedLog = <<>>
    /\ lastReq = 0
    /\ syncHalt = 0
    /\ haltedSinceStart = FALSE
    /\ renders = 0
    /\ walletField = ""
    /\ ev = NoEv

\* ---- run (lines 102-114) ---------------------------------------------------
\* init() resolves: the chain is constructed, the UI rendered, the handlers
\* installed and the Start button enabled.
RunInitOk ==
    /\ runPc = "init"
    /\ LET chain == NewFlorestaChain
           ui == update_ui(chain, last_tip, display)
       IN /\ florestaChain' = chain
          /\ last_tip' = ui.last_tip
          /\ display' = ui.display
          /\ renders' = IF ui.wrote THEN renders + 1 ELSE renders
          /\ ev' = [NoEv EXCEPT !.op = "run", !.ui = TRUE, !.wrote = ui.wrote]
    /\ runPc' = "ready"
    /\ startDisabled' = FALSE
    /\ UNCHANGED <<loops, srcVars, clicks, toggles, appliedLog, lastReq,
                   syncHalt, haltedSinceStart, walletField>>

\* init() rejects: .catch(console.error), nothing is constructed.
RunInitFail ==
    /\ runPc = "init"
    /\ runPc' = "failed"
    /\ ev' = NoEv
    /\ UNCHANGED <<florestaChain, last_tip, display, startDisabled, loops,
                   srcVars, clicks, toggles, appliedLog, lastReq, syncHalt,
                   haltedSinceStart, renders, walletField>>

\* ---- sync_loop, up to the fetch of its update_tip (lines 94-95, 55-59) -----
ClickStart ==
    /\ runPc = "ready"
    /\ ~startDisabled
    /\ NumLoops < MaxLoops
    /\ LET h == StartHeight(florestaChain)
       IN /\ loops' = loops (+) One(Loop("sync", h, "pending"))
          /\ lastReq' = h
          /\ ev' = [NoEv EXCEPT !.op = "click", !.fetched = h, !.newInv = TRUE,
                                !.kind = "sync"]
    /\ clicks' = IF clicks = 0 THEN 1 ELSE 2
    /\ haltedSinceStart' = FALSE
    /\ UNCHANGED <<runPc, florestaChain, last_tip, display, startDisabled,
                   srcVars, toggles, appliedLog, syncHalt, renders, walletField>>

\* ---- the setInterval callback (lines 117-124) ------------------------------
\* The timer is armed when the module loads, before init() has resolved:
\* update_ui then reads florestaChain.tip of undefined and throws.
TickThrow ==
    /\ ~florestaChain.defined
    /\ ev' = [NoEv EXCEPT !.op = "tick_throw", !.ui = TRUE]
    /\ UNCHANGED <<runPc, florestaChain, last_tip, display, startDisabled,
                   loops, srcVars, clicks, toggles, appliedLog, lastReq,
                   syncHalt, haltedSinceStart, renders, walletField>>

Tick ==
    /\ florestaChain.defined
    /\ LET ui == update_ui(florestaChain, last_tip, display)
           h == StartHeight(florestaChain)
       IN /\ last_tip' = ui.last_tip
          /\ display' = ui.display
          /\ renders' = IF ui.wrote THEN renders + 1 ELSE renders
          /\ IF TickSkips(florestaChain)
             THEN /\ ev' = [NoEv EXCEPT !.op = "tick", !.ui = TRUE,
                                        !.wrote = ui.wrote]
                  /\ UNCHANGED <<loops, lastReq>>
             ELSE /\ NumLoops < MaxLoops
                  /\ loops' = loops (+) One(Loop("tick", h, "pending"))
                  /\ lastReq' = h
                  /\ ev' = [NoEv EXCEPT !.op = "tick", !.ui = TRUE,
                                        !.wrote = ui.wrote, !.fetched = h,
                                        !.newInv = TRUE, !.kind = "tick"]
    /\ UNCHANGED <<runPc, florestaChain, startDisabled, srcVars, clicks,
                   toggles, appliedLog, syncHalt, haltedSinceStart, walletField>>

\* ---- the address handlers (lines 79-92) --------------------------------------
\* add_address_to_wallet reads the field, passes its value to add_address and
\* then empties the field; when add_address throws, the handler ends there.
add_address_to_walletKeepsField(chain, field) ==
    IF AddressOk(field)
    THEN [chain |-> add_address(chain, field), field |-> field,
          added |-> <<field>>, threw |-> FALSE]
    ELSE [chain |-> chain, field |-> field, added |-> <<field>>, threw |-> TRUE]

add_address_to_walletRescans(chain, field) ==
    IF AddressOk(field)
    THEN [chain |-> [add_address(chain, field) EXCEPT !.height = 0,
                                                       !.tip = TipOf(0)],
          field |-> "", added |-> <<field>>, threw |-> FALSE]
    ELSE [chain |-> chain, field |-> field, added |-> <<field>>, threw |-> TRUE]

add_address_to_wallet(chain, field) ==
    IF AddressOk(field)
    THEN [chain |-> add_address(chain, field), field |-> "",
          added |-> <<field>>, threw |-> FALSE]
    ELSE [chain |-> chain, field |-> field, added |-> <<field>>, threw |-> TRUE]

\* add_random_address_to_wallet writes the address it obtained into the field
\* (line 82), shows it in an alert and calls add_address_to_wallet.
add_random_address_to_walletSkipsField(chain, field, r) ==
    add_address_to_wallet(get_random_address(chain, r), field)

add_random_address_to_wallet(chain, field, r) ==
    add_address_to_wallet(get_random_address(chain, r), r)

\* The user edits the input field.
TypeAddress ==
    /\ \E v \in UserInputs \cup {""} :
          /\ v # walletField
          /\ walletField' = v
    /\ ev' = NoEv
    /\ UNCHANGED <<runPc, florestaChain, last_tip, display, startDisabled,
                   loops, srcVars, clicks, toggles, appliedLog, lastReq,
                   syncHalt, haltedSinceStart, renders>>

\* The handlers are installed by run() (lines 111-112).
ClickAddWallet ==
    /\ runPc = "ready"
    /\ LET r == add_address_to_wallet(florestaChain, walletField)
       IN /\ florestaChain' = r.chain
          /\ walletField' = r.field
          /\ ev' = [NoEv EXCEPT !.op = "add_wallet", !.added = r.added,
                                !.threw = r.threw,
                                !.already = walletField \in florestaChain.watched]
    /\ UNCHANGED <<runPc, last_tip, display, startDisabled, loops, srcVars,
                   clicks, toggles, appliedLog, lastReq, syncHalt,
                   haltedSinceStart, renders>>

ClickRandomWallet ==
    /\ runPc = "ready"
    /\ \E a \in RandomAddrs :
          LET r == add_random_address_to_wallet(florestaChain, walletField, a)
          IN /\ florestaChain' = r.chain
             /\ walletField' = r.field
             /\ ev' = [NoEv EXCEPT !.op = "random_wallet", !.addr = a,
                                   !.added = r.added, !.threw = r.threw,
                                   !.already = a \in florestaChain.watched]
    /\ UNCHANGED <<runPc, last_tip, display, startDisabled, loops, srcVars,
                   clicks, toggles, appliedLog, lastReq, syncHalt,
                   haltedSinceStart, renders>>

\* ---- the block source -------------------------------------------------------
\* The source's chain only grows, so a body with the block of height h reads
\* the same whenever the source produced it: such an answer is modelled where
\* it is delivered.  An answer without data may be stale by the time it is
\* delivered, so it is produced in a step of its own.
AnswerAbsent(l) ==
    /\ l \in Running
    /\ l.res = "pending"
    /\ l.height > srcHeight
    /\ loops' = (loops (-) One(l)) (+) One([l EXCEPT !.res = "absent"])
    /\ ev' = NoEv
    /\ UNCHANGED <<runPc, florestaChain, last_tip, display, startDisabled,
                   srcVars, clicks, toggles, appliedLog, lastReq, syncHalt,
                   haltedSinceStart, renders, walletField>>

\* The answers that can be delivered to l now: the request fails in transport
\* (or its body is not JSON), the body carries the block, or it carries no data.
Deliverable(l) ==
    {a \in {"error", "block", "absent"} :
        \/ a = "error" /\ l.res = "pending" /\ faulty
        \/ a = "block" /\ l.res = "pending" /\ l.height <= srcHeight
        \/ a = "absent" /\ l.res = "absent"}

\* The transport is repaired, for good.
SourceRecover ==
    /\ faulty
    /\ faulty' = FALSE
    /\ ev' = NoEv
    /\ UNCHANGED <<runPc, florestaChain, last_tip, display, startDisabled,
                   loops, srcHeight, badBlock, clicks, toggles, appliedLog,
                   lastReq, syncHalt, haltedSinceStart, renders, walletField>>

\* A new block is mined.
SourceGrow ==
    /\ srcHeight < MaxK
    /\ srcHeight' = srcHeight + 1
    /\ ev' = NoEv
    /\ UNCHANGED <<runPc, florestaChain, last_tip, display, startDisabled,
                   loops, badBlock, faulty, clicks, toggles, appliedLog,
                   lastReq, syncHalt, haltedSinceStart, renders, walletField>>

\* ---- update_tip resumed with the answer (lines 59-74, 96-98) ---------------
\* The await throws, or accept_block throws: update_tip rejects; a sync_loop
\* awaiting it rejects too, before its toggle_ibd.
Halt(l, a, acc) ==
    /\ loops' = loops (-) One(l)
    /\ syncHalt' = IF l.kind = "sync" THEN l.height ELSE syncHalt
    /\ haltedSinceStart' = TRUE
    /\ ev' = [NoEv EXCEPT !.op = "halt", !.kind = l.kind, !.accept = acc,
                          !.res = a, !.height = l.height]
    /\ UNCHANGED <<runPc, florestaChain, last_tip, display, startDisabled,
                   srcVars, clicks, toggles, appliedLog, lastReq, renders, walletField>>

ResumeThrow(l) ==
    /\ l \in Running
    /\ \E a \in Deliverable(l) :
          /\ FetchOutcome(a) = "throw"
          /\ Halt(l, a, 0)

\* No data: the loop breaks and update_tip returns.  The timer's invocation
\* is over; a sync_loop goes on to toggle_ibd, update_ui and the button.
ResumeBreakTick(l) ==
    /\ l \in Running
    /\ l.kind = "tick"
    /\ \E a \in Deliverable(l) :
          /\ FetchOutcome(a) = "break"
          /\ ev' = [NoEv EXCEPT !.op = "done", !.kind = "tick", !.res = a,
                                !.height = l.height]
    /\ loops' = loops (-) One(l)
    /\ UNCHANGED <<runPc, florestaChain, last_tip, display, startDisabled,
                   srcVars, clicks, toggles, appliedLog, lastReq, syncHalt,
                   haltedSinceStart, renders, walletField>>

ResumeBreakSync(l) ==
    /\ l \in Running
    /\ l.kind = "sync"
    /\ loops' = loops (-) One(l)
    /\ LET chain == toggle_ibd(florestaChain)
           ui == update_ui(chain, last_tip, display)
       IN /\ florestaChain' = chain
          /\ last_tip' = ui.last_tip
          /\ display' = ui.display
          /\ renders' = IF ui.wrote THEN renders + 1 ELSE renders
          /\ \E a \in Deliverable(l) :
                /\ FetchOutcome(a) = "break"
                /\ ev' = [NoEv EXCEPT !.op = "done", !.kind = "sync",
                                      !.ui = TRUE, !.wrote = ui.wrote,
                                      !.res = a, !.height = l.height]
    /\ toggles' = toggles + 1
    /\ startDisabled' = DisabledAfterSync
    /\ UNCHANGED <<runPc, srcVars, clicks, appliedLog, lastReq, syncHalt,
                   haltedSinceStart, walletField>>

\* Data: the block is handed to accept_block; if it is accepted the local
\* height is incremented and the next fetch is issued.
ResumeApply(l) ==
    /\ l \in Running
    /\ \E a \in Deliverable(l) : FetchOutcome(a) = "apply"
    /\ Accepts(florestaChain, l.height, badBlock)
    /\ LET chain == accept_block(florestaChain, l.height)
           h == NextHeight(l.height)
       IN /\ florestaChain' = chain
          /\ loops' = (loops (-) One(l)) (+) One(Loop(l.kind, h, "pending"))
          /\ lastReq' = h
          /\ renders' = IF chain.tip # florestaChain.tip THEN 0 ELSE renders
          /\ ev' = [NoEv EXCEPT !.op = "apply", !.kind = l.kind,
                                !.accept = l.height, !.fetched = h,
                                !.res = "block", !.height = l.height]
    /\ appliedLog' = Append(appliedLog, l.height)
    /\ UNCHANGED <<runPc, last_tip, display, startDisabled, srcVars, clicks,
                   toggles, syncHalt, haltedSinceStart, walletField>>

ResumeReject(l) ==
    /\ l \in Running
    /\ ~Accepts(florestaChain, l.height, badBlock)
    /\ \E a \in Deliverable(l) :
          /\ FetchOutcome(a) = "apply"
          /\ Halt(l, a, l.height)

Next ==
    \/ RunInitOk
    \/ RunInitFail
    \/ ClickStart
    \/ TickThrow
    \/ Tick
    \/ SourceGrow
    \/ SourceRecover
    \/ \E l \in Running : AnswerAbsent(l)
    \/ \E l \in Running : ResumeThrow(l)
    \/ \E l \in Running : ResumeBreakTick(l)
    \/ \E l \in Running : ResumeBreakSync(l)
    \/ \E l \in Running : ResumeApply(l)
    \/ \E l \in Running : ResumeReject(l)

Spec == Init /\ [][Next]_vars

\* Every request is eventually answered, every answered update_tip is
\* eventually resumed by the event loop, and the interval timer keeps firing.
LoopRecs == [kind : {"sync", "tick"}, height : 1..(MaxK + 1),
             res : {"pending", "absent"}]

Resume(l) ==
    \/ ResumeThrow(l)
    \/ ResumeBreakTick(l)
    \/ ResumeBreakSync(l)
    \/ ResumeApply(l)
    \/ ResumeReject(l)

FairSpec ==
    /\ Spec
    /\ WF_vars(Tick)
    /\ \A l \in LoopRecs : WF_vars(AnswerAbsent(l)) /\ WF_vars(Resume(l))

\* The page with its wallet in use, synchronising from a source that answers
\* every request from its chain.
WalletInit == Init /\ ~faulty /\ badBlock = 0

WalletNext ==
    \/ RunInitOk
    \/ RunInitFail
    \/ ClickStart
    \/ TickThrow
    \/ Tick
    \/ TypeAddress
    \/ ClickAddWallet
    \/ ClickRandomWallet
    \/ SourceGrow
    \/ \E l \in Running : AnswerAbsent(l)
    \/ \E l \in Running : ResumeBreakTick(l)
    \/ \E l \in Running : ResumeBreakSync(l)
    \/ \E l \in Running : ResumeApply(l)
    \/ \E l \in Running : ResumeReject(l)

WalletSpec == WalletInit /\ [][WalletNext]_vars

\* ---- properties -------------------------------------------------------------
Height == florestaChain.height

Upto(n) == [i \in 1..n |-> i]

Applied(log, n) == n = 0 \/ \E i \in 1..Len(log) : log[i] = n

\* The source answers from its chain: its transport does not fail and no
\* block of it is invalid.
NoFault == ~faulty /\ badBlock = 0

\* The single sync_loop has not ended: its one update_tip is asking for
\* height + 1, at most one past the source's last block, and its next step
\* (the answer, or the resumption) can be taken.
SyncLoopInProgress ==
    /\ NumLoops = 1
    /\ \E l \in Running :
          /\ l.kind = "sync"
          /\ l.height = Height + 1
          /\ l.height <= MaxK + 1
          /\ appliedLog = Upto(Height)
          /\ ENABLED (AnswerAbsent(l) \/ Resume(l))

\* C1. Sync termination: after a single Start click on a fresh chain, when the
\* source has answered with a block for the heights 1..K and with no block
\* for K+1, the sync_loop has applied exactly the blocks 1..K in that order
\* and has ended, having called toggle_ibd exactly once, with height = K and
\* the initial-sync flag false; until it ends or halts on a fault it is in
\* progress and never stuck.
SyncTermination ==
    /\ (clicks = 1 /\ ev.op = "done" /\ ev.kind = "sync") =>
            /\ appliedLog = Upto(ev.height - 1)
            /\ Height = ev.height - 1
            /\ ev.height - 1 <= srcHeight
            /\ NumLoops = 0
    /\ (clicks = 1 /\ startDisabled) =>
            /\ appliedLog = Upto(Height)
            /\ toggles = 1
            /\ ~florestaChain.ibd
    /\ (clicks = 1 /\ ~startDisabled /\ syncHalt = 0) => SyncLoopInProgress

\* The liveness half of C1, under FairSpec: with a fault-free source the
\* single sync_loop does end.
SyncEventuallyEnds ==
    (clicks = 1 /\ ~startDisabled /\ syncHalt = 0 /\ NoFault)
        ~> (startDisabled \/ clicks > 1)

SyncTerminationWitness ==
    /\ clicks = 1
    /\ startDisabled
    /\ srcHeight = MaxK
    /\ appliedLog = Upto(MaxK)
    /\ ev.op = "done"
    /\ ev.height = MaxK + 1

\* C2. Halt on error: an update_tip whose fetch fails in transport, or whose
\* block accept_block rejects, halts and is never taken to have reached the
\* end of the chain.  When it is the update_tip of the single sync_loop and
\* the failure is at height N+1, it halts with exactly the blocks 1..N applied
\* and height = N, toggle_ibd is not called, the initial-sync flag stays true
\* and the Start button stays enabled.
Failed == ev.res = "error" \/ (ev.res = "block" /\ ev.op # "apply")

AtMostOneInFlight == NumLoops <= 1

\* C4. The initial-sync toggle fires at most once per process lifetime, so the
\* flag never returns to true once it is false.
ToggleAtMostOnce == toggles <= 1

\* C5. Monotonic height: every accept_block call passes the block fetched for
\* height florestaChain.height + 1 as of the moment of the call.
AcceptPassesNextBlock ==
    [][ev'.accept # 0 => ev'.accept = florestaChain.height + 1]_vars

\* C6. Fetch ordering: a fetch for height N+1 is issued only after the block
\* of height N has been applied, and no request is for a lower height than
\* the request before it, overlapping invocations included.
FetchOrdering ==
    [][ev'.fetched # 0 =>
          /\ Applied(appliedLog', ev'.fetched - 1)
          /\ ev'.fetched >= lastReq
          /\ lastReq' = ev'.fetched]_vars

FetchOrderingWitness ==
    /\ NumLoops >= 2
    /\ ev.op = "apply"
    /\ ev.fetched = 2
    /\ \E l \in Running : l.height = 1

\* C7 as stated. No automatic retry: once an update_tip has halted on an
\* error, no new invocation begins (so nothing new is fetched) until the user
\* clicks Start again, in the initial sync and in steady state alike.  Stated
\* here for the runs with a single Start click, where no two sync_loops
\* overlap; the claim covers them.
NoAutomaticRetry ==
    [][(clicks' = 1 /\ haltedSinceStart /\ ev'.newInv) => ev'.op = "click"]_vars

\* C7 as amended. While the initial-sync flag is true, once an update_tip has
\* halted on an error no new invocation begins until the user clicks Start
\* again; while the flag is false every periodic tick begins a new invocation
\* and fetches height + 1 again, halted or not.
NoRetryDuringInitialSync ==
    [][/\ (haltedSinceStart /\ florestaChain.defined /\ ev'.newInv
              /\ ev'.op # "click") => ~florestaChain.ibd
       /\ (ev'.op = "tick" /\ ~florestaChain.ibd) =>
              (ev'.newInv /\ ev'.fetched = Height + 1)]_vars

NoRetryDuringInitialSyncWitness ==
    /\ haltedSinceStart
    /\ florestaChain.defined
    /\ florestaChain.ibd
    /\ ev.op = "tick"
    /\ ~ev.newInv
    /\ NumLoops = 0

\* C8. Tick gating: every tick calls update_ui first and begins the
\* fetch-apply loop only when the initial-sync flag is false; so before the
\* first Start click nothing has been fetched or applied.
TickGating ==
    /\ [][(ev'.op \in {"tick", "tick_throw"}) =>
            /\ ev'.ui
            /\ ev'.newInv => (florestaChain.defined /\ ~florestaChain.ibd)]_vars
    /\ [](clicks = 0 =>
            /\ lastReq = 0
            /\ appliedLog = <<>>
            /\ NumLoops = 0
            /\ (florestaChain.defined => Height = 0))

TickGatingWitness ==
    /\ clicks = 0
    /\ ev.op = "tick"
    /\ florestaChain.defined
    /\ srcHeight > 0

\* C9. Steady-state catch-up: once the initial sync has completed, if the
\* source holds a block above the local height and answers without fault, the
\* local height eventually reaches the source's height.
SteadyStateCatchUp ==
    (florestaChain.defined /\ startDisabled /\ NoFault /\ Height < srcHeight)
        ~> (florestaChain.defined /\ Height = srcHeight)

\* C10. Idempotent render skip: update_ui writes the display exactly when the
\* tip differs from last_tip, and leaves last_tip equal to the tip; so after
\* any update_ui the display has been written exactly once since the tip last
\* changed, the first render from the sentinel included.
IdempotentRenderSkip ==
    [][(ev'.ui /\ florestaChain'.defined) =>
          /\ ev'.wrote <=> (florestaChain'.tip # last_tip)
          /\ last_tip' = florestaChain'.tip
          /\ ev'.wrote => display' = Snapshot(florestaChain')
          /\ ~ev'.wrote => display' = display
          /\ renders' = 1]_vars

IdempotentRenderSkipWitness ==
    /\ ev.op = "tick"
    /\ ~ev.wrote
    /\ renders = 1
    /\ display.shown
    /\ Height > 0


\* C12: a sync_loop that completes leaves the Start button disabled, and once
\* the button is disabled it stays disabled and no step is a Start click, so
\* no further sync_loop begins.
OneShotStart ==
    [][/\ (ev'.op = "done" /\ ev'.kind = "sync") => startDisabled'
       /\ startDisabled => (startDisabled' /\ ev'.op # "click")]_vars

\* A sync_loop has completed, the page has gone on to a steady-state tick that
\* began an update_tip, and the button is still disabled.
OneShotStartWitness ==
    /\ startDisabled
    /\ toggles = 1
    /\ ev.op = "tick"
    /\ ev.newInv


Watched == florestaChain.watched

\* C13: after add_random_address_to_wallet the address it obtained from
\* get_random_address is not empty, is the very string it passed to
\* add_address, is in the watch set, and the input field is empty.
RandomAddressWatched ==
    ev.op = "random_wallet" =>
        /\ ev.addr # ""
        /\ ev.added = <<ev.addr>>
        /\ ~ev.threw
        /\ ev.addr \in Watched
        /\ walletField = ""

\* The random button was pressed while a fetch was pending and before the
\* user's own address was watched.
RandomAddressWatchedWitness ==
    /\ ev.op = "random_wallet"
    /\ ev.addr \in Watched
    /\ "abc123" \notin Watched
    /\ walletField = ""
    /\ NumLoops = 1

\* C14: add_address_to_wallet passes the field's value to add_address.  When
\* that succeeds the watch set is the old one with the value added (so a value
\* already watched leaves it as it was) and the field is emptied; when it
\* throws, which it does exactly on a string that is not an address, the
\* field and the chain are as before.
AddressRoundTrip ==
    [][ev'.op = "add_wallet" =>
        /\ ev'.added = <<walletField>>
        /\ ev'.threw <=> ~AddressOk(walletField)
        /\ ev'.threw => (walletField' = walletField /\ florestaChain' = florestaChain)
        /\ ~ev'.threw =>
              /\ florestaChain'.watched = Watched \cup {walletField}
              /\ walletField' = ""]_vars

\* The same address was submitted a second time.
AddressRoundTripWitness ==
    /\ ev.op = "add_wallet"
    /\ ev.added = <<"abc123">>
    /\ ev.already
    /\ ~ev.threw
    /\ Watched = {"abc123"}
    /\ walletField = ""


\* C15: a Start click that follows a halted sync_loop requests height + 1 of
\* the chain as it is then; the applied blocks are 1..height, each once and
\* in order, and stay so afterwards: the restart neither repeats a block nor
\* skips a height.
RestartResumes ==
    [][/\ (ev'.op = "click" /\ syncHalt # 0) =>
             /\ ev'.fetched = Height + 1
             /\ appliedLog = Upto(Height)
       /\ syncHalt # 0 => appliedLog' = Upto(florestaChain'.height)]_vars

\* Start was clicked again after the first sync_loop had applied a block and
\* halted: the only invocation now running asks for the next height.
RestartResumesWitness ==
    /\ ev.op = "click"
    /\ clicks = 2
    /\ syncHalt = 2
    /\ Height = 1
    /\ ev.fetched = 2
    /\ NumLoops = 1


\* C16: when a sync_loop has finished, the display shows the chain as it is
\* after toggle_ibd: its tip, its height and its initial-sync flag.
DisplayCurrentAfterSync ==
    (ev.op = "done" /\ ev.kind = "sync") => display = Snapshot(florestaChain)


\* C17: a step of either address handler leaves the chain's height, tip and
\* initial-sync flag, last_tip, the display, the Start button and every
\* suspended update_tip (its local height and its pending request) as they
\* were, sends no request and applies no block.
WalletFrame ==
    [][ev'.op \in {"add_wallet", "random_wallet"} =>
        /\ florestaChain'.height = florestaChain.height
        /\ florestaChain'.tip = florestaChain.tip
        /\ florestaChain'.ibd = florestaChain.ibd
        /\ last_tip' = last_tip
        /\ loops' = loops
        /\ lastReq' = lastReq
        /\ ev'.fetched = 0 /\ ~ev'.newInv /\ ev'.accept = 0
        /\ UNCHANGED <<display, startDisabled, appliedLog, toggles>>]_vars

\* An address was added in the middle of the initial sync: block 1 is applied
\* and not yet rendered, and the request for block 2 is pending.
WalletFrameWitness ==
    /\ ev.op = "add_wallet"
    /\ ~ev.threw
    /\ Height = 1
    /\ florestaChain.ibd
    /\ last_tip # florestaChain.tip
    /\ loops = One(Loop("sync", 2, "pending"))

\* C18: every callback of the page (the Start click, the address buttons,
\* the timer callback, a resumed update_tip) runs with the chain constructed.
InitBeforeUse == ev.op # "none" => florestaChain.defined

====
